---- MODULE Spec2Model ----
(***************************************************************************)
(* Model of the chat backend's message routes (src/routes/messageRoutes.js) *)
(* and presence registry (src/server.js).                                   *)
(*                                                                          *)
(* Every request handler is an async function: the code between two awaits  *)
(* runs atomically on the event loop, and every await on the store is a     *)
(* point where other requests interleave.  One action models one such       *)
(* segment together with the store operation it awaits.  The synchronous    *)
(* prologue of a handler (parameter extraction, validation) touches no      *)
(* shared state and is merged with the handler's first store operation.     *)
(***************************************************************************)
EXTENDS Naturals, Integers, Sequences, FiniteSets, TLC

\* ------------------------------------------------------------------ bounds
NumProcs == 2       \* requests that can be in flight at the same time
MaxMsgs == 2        \* message documents created in one behaviour
MaxSendMsgs == 3    \* the same, in behaviours made of sends only
MaxReceiptMsgs == 1 \* the same, in behaviours with client events
MaxConvs == 2       \* conversation documents created in one behaviour
MaxFails == 1       \* store operations that reject in one behaviour
NumSockets == 3     \* socket.io connections opened in one behaviour
NumRelaySockets == 1 \* the same, in behaviours that also run requests

Users == {"A", "B"}
Procs == 1..NumProcs
Sockets == 1..NumSockets
RelaySockets == 1..NumRelaySockets

\* absent values: no socket registered, no document found / field unset
NoSocket == 0
NoId == 0

\* ------------------------------------------------------------------ state
VARIABLES
    convs,          \* conversations collection: sequence indexed by _id
    msgs,           \* messages collection: function from _id to document
    nextMsgId,      \* next ObjectId handed out by new Message()
    userSocketMap,  \* server.js registry {userId: socketId}
    sockState,      \* per socket: "new", "open" or "closed"
    sockUser,       \* per socket: socket.handshake.query.userId
    lastConnect,    \* per user: the socket that connected last as that user
    pc,             \* per request slot: the await the handler is parked at
    req,            \* per request slot: the handler's local variables
    out,            \* what the step just taken sent: response, push, broadcast
    nfail,          \* number of store operations that have rejected
    deleted,        \* message ids whose DELETE answered 200
    acked           \* message ids whose POST /send answered 201

vars == <<convs, msgs, nextMsgId, userSocketMap, sockState, sockUser,
          lastConnect, pc, req, out, nfail, deleted, acked>>

storeVars == <<convs, msgs, nextMsgId>>
presenceVars == <<userSocketMap, sockState, sockUser, lastConnect>>

\* ---------------------------------------------------------------- helpers
Range(s) == {s[i] : i \in DOMAIN s}

ConvIds == DOMAIN convs
MsgIds == DOMAIN msgs

Participants(c) == Range(convs[c].participants)

\* String.prototype.trim on a body given as a sequence of characters
IsSpace(ch) == ch \in {" ", "\t", "\n"}

RECURSIVE TrimStart(_)
TrimStart(s) ==
    IF s = <<>> THEN <<>>
    ELSE IF IsSpace(Head(s)) THEN TrimStart(Tail(s)) ELSE s

RECURSIVE TrimEnd(_)
TrimEnd(s) ==
    IF s = <<>> THEN <<>>
    ELSE IF IsSpace(s[Len(s)]) THEN TrimEnd(SubSeq(s, 1, Len(s) - 1)) ELSE s

Trim(s) == TrimEnd(TrimStart(s))

\* req.body.message: absent, or a string
Bodies ==
    { [defined |-> FALSE, text |-> <<>>] } \cup
    { [defined |-> TRUE, text |-> t] :
        t \in { <<>>, <<" ">>, <<"\t", " ">>, <<"\n">>, <<"h">>, <<" ", "h">>,
                <<"h", "\n">>, <<" ", "h", " ">> } }

\* !message || message.trim() === ""
BodyRejectedNoTrim(body) == (~body.defined) \/ body.text = <<>>

BodyRejected(body) == (~body.defined) \/ body.text = <<>> \/ Trim(body.text) = <<>>

\* locals of a handler; a slot with no request in flight holds NoReq.
\* text: message.trim(), the content the send stores;
\* fresh: no conversation of exactly this pair existed when findOne ran;
\* seen: the next message id when a fetch ran its findOne (older ids existed)
NoReq ==
    [op |-> "none", userId |-> "A", otherId |-> "A", messageId |-> NoId,
     conversationId |-> NoId, text |-> <<>>, list |-> <<>>, fresh |-> FALSE,
     seen |-> 0]

\* what one step sends out: an HTTP response, a newMessage push and a
\* getOnlineUsers broadcast; NoOut when the step sent nothing
NoOut ==
    [kind |-> "none", op |-> "none", status |-> 0,
     pushTo |-> NoSocket, pushMsg |-> NoId, online |-> {}, audience |-> {}]

Init ==
    /\ convs = <<>>
    /\ msgs = <<>>
    /\ nextMsgId = 1
    /\ userSocketMap = [u \in Users |-> NoSocket]
    /\ sockState = [s \in Sockets |-> "new"]
    /\ sockUser = [s \in Sockets |-> ""]
    /\ lastConnect = [u \in Users |-> NoSocket]
    /\ pc = [p \in Procs |-> "idle"]
    /\ req = [p \in Procs |-> NoReq]
    /\ out = NoOut
    /\ nfail = 0
    /\ deleted = {}
    /\ acked = {}

\* ------------------------------------------------------- store operations
\* the filter {participants: {$all: [a, b]}}: the documents whose
\* participants array contains every listed value
FindMatches(a, b) == {c \in ConvIds : {a, b} \subseteq Participants(c)}

\* Conversation.findOne(filter): the first match in natural order, the order
\* of insertion; NoId (null) without a match
FindOne(a, b) ==
    IF FindMatches(a, b) = {} THEN NoId
    ELSE CHOOSE c \in FindMatches(a, b) : \A d \in FindMatches(a, b) : c <= d

\* the conversations whose participant set is exactly the pair {a, b}
ConvsOfPair(a, b) == {c \in ConvIds : Participants(c) = {a, b}}

\* Conversation.create({participants: [a, b]}): schema defaults fill the rest
NewConversation(a, b) ==
    [participants |-> <<a, b>>, messages |-> <<>>, lastMessage |-> NoId]

\* new Message({senderId, receiverId, message, conversationId}); isRead
\* defaults to false
NewMessage(s, r, text, c) ==
    [senderId |-> s, receiverId |-> r, message |-> text,
     conversationId |-> c, isRead |-> FALSE]

\* conversation.messages.push(id); conversation.lastMessage = id;
\* conversation.save(): mongoose sends the delta, one atomic update of the
\* stored document {$push: {messages: id}, $set: {lastMessage: id}}
PushAndSaveLost(doc, id) == doc

PushAndSave(doc, id) ==
    [doc EXCEPT !.messages = Append(@, id), !.lastMessage = id]

\* populate({path: "messages"}): loads the documents the listed ids refer
\* to, in list order; ids without a document are dropped
PopulateRetainMissing(list, store) == list

Populate(list, store) ==
    LET Stored(id) == id \in DOMAIN store IN SelectSeq(list, Stored)

\* Message.updateMany({conversationId, senderId?, receiverId, isRead: false},
\* {isRead: true}); anySender is TRUE when the filter has no senderId
UpdateManyReadAnyReceiver(store, c, anySender, s, r) ==
    [id \in DOMAIN store |->
        IF /\ store[id].conversationId = c
           /\ (anySender \/ store[id].senderId = s)
           /\ store[id].isRead = FALSE
        THEN [store[id] EXCEPT !.isRead = TRUE]
        ELSE store[id]]

UpdateManyRead(store, c, anySender, s, r) ==
    [id \in DOMAIN store |->
        IF /\ store[id].conversationId = c
           /\ (anySender \/ store[id].senderId = s)
           /\ store[id].receiverId = r
           /\ store[id].isRead = FALSE
        THEN [store[id] EXCEPT !.isRead = TRUE]
        ELSE store[id]]

\* message.senderId.toString() !== userId
NotSenderUnchecked(message, userId) == FALSE

NotSender(message, userId) == message.senderId # userId

\* Message.findByIdAndDelete(id)
RemoveMessage(store, id) == [i \in DOMAIN store \ {id} |-> store[i]]

\* findByIdAndUpdate(c, {$pull: {messages: id}}): removes every occurrence
Pull(doc, id) ==
    LET Other(x) == x # id IN [doc EXCEPT !.messages = SelectSeq(@, Other)]

\* ------------------------------------------------------ request handling
Idle(p) == pc[p] = "idle"

\* res.status(code).json(...): the handler returns, its slot is free.  The
\* body of a fetch response is the handler's list (req[p].list) at this step
Respond(p, op, code) ==
    /\ req' = [req EXCEPT ![p] = NoReq]
    /\ pc' = [pc EXCEPT ![p] = "idle"]
    /\ out' = [NoOut EXCEPT !.kind = "response", !.op = op, !.status = code]

\* the handler awaits its next store operation
Park(p, r, at) ==
    /\ req' = [req EXCEPT ![p] = r]
    /\ pc' = [pc EXCEPT ![p] = at]
    /\ out' = NoOut

\* sends that may still save a message / create a conversation
UnsavedSends == {p \in Procs : pc[p] \in {"send_create", "send_save"}}
UncreatedSends == {p \in Procs : pc[p] = "send_create"}

\* POST /send/:id from the request's arrival to the resolution of
\* Conversation.findOne: 400 on a rejected body, else find
SendStart(p, s, r, body) ==
    /\ Idle(p)
    /\ LET r0 == [NoReq EXCEPT !.op = "send", !.userId = s, !.otherId = r,
                               !.text = Trim(body.text),
                               !.fresh = (ConvsOfPair(s, r) = {})]
           conversation == FindOne(s, r)
       IN  IF BodyRejected(body)
           THEN Respond(p, "send", 400)
           ELSE IF conversation = NoId
                THEN Park(p, r0, "send_create")
                ELSE Park(p, [r0 EXCEPT !.conversationId = conversation],
                          "send_save")
    /\ UNCHANGED <<storeVars, presenceVars, nfail, deleted, acked>>

\* if (!conversation) conversation = await Conversation.create(...)
SendCreate(p) ==
    /\ pc[p] = "send_create"
    /\ convs' = Append(convs, NewConversation(req[p].userId, req[p].otherId))
    /\ Park(p, [req[p] EXCEPT !.conversationId = Len(convs) + 1], "send_save")
    /\ UNCHANGED <<msgs, nextMsgId, presenceVars, nfail, deleted, acked>>

\* new Message(...); await newMessage.save()
SendSave(p) ==
    /\ pc[p] = "send_save"
    /\ msgs' = (nextMsgId :> NewMessage(req[p].userId, req[p].otherId,
                                        req[p].text, req[p].conversationId))
                @@ msgs
    /\ nextMsgId' = nextMsgId + 1
    /\ Park(p, [req[p] EXCEPT !.messageId = nextMsgId], "send_update")
    /\ UNCHANGED <<convs, presenceVars, nfail, deleted, acked>>

\* conversation.messages.push(...); ...; await conversation.save()
SendUpdate(p) ==
    /\ pc[p] = "send_update"
    /\ convs' = [convs EXCEPT ![req[p].conversationId] =
                    PushAndSave(@, req[p].messageId)]
    /\ Park(p, req[p], "send_relay")
    /\ UNCHANGED <<msgs, nextMsgId, presenceVars, nfail, deleted, acked>>

\* await newMessage.populate(...); getReceiverSocketId; emit; res 201
SendRelay(p) ==
    /\ pc[p] = "send_relay"
    /\ req' = [req EXCEPT ![p] = NoReq]
    /\ pc' = [pc EXCEPT ![p] = "idle"]
    /\ LET receiverSocketId == userSocketMap[req[p].otherId] IN
        out' = [NoOut EXCEPT !.kind = "response", !.op = "send",
                             !.status = 201,
                             !.pushTo = receiverSocketId,
                             !.pushMsg = IF receiverSocketId # NoSocket
                                         THEN req[p].messageId ELSE NoId]
    /\ acked' = acked \cup {req[p].messageId}
    /\ UNCHANGED <<storeVars, presenceVars, nfail, deleted>>

\* GET /:id from the request's arrival to the resolution of
\* await Conversation.findOne(...).populate(...), the handler's first await;
\* if (!conversation) return res 200 json([])
FetchStart(p, viewer, other) ==
    /\ Idle(p)
    /\ LET r0 == [NoReq EXCEPT !.op = "fetch", !.userId = viewer,
                               !.otherId = other, !.seen = nextMsgId,
                               !.fresh = (ConvsOfPair(viewer, other) = {})]
           conversation == FindOne(viewer, other)
       IN  IF conversation = NoId
           THEN Respond(p, "fetch", 200)
           ELSE Park(p, [r0 EXCEPT
                            !.conversationId = conversation,
                            !.list = Populate(convs[conversation].messages,
                                              msgs)],
                     "fetch_mark")
    /\ UNCHANGED <<storeVars, presenceVars, nfail, deleted, acked>>

\* await Message.updateMany(...); res 200 json(conversation.messages)
FetchMark(p) ==
    /\ pc[p] = "fetch_mark"
    /\ msgs' = UpdateManyRead(msgs, req[p].conversationId, FALSE,
                              req[p].otherId, req[p].userId)
    /\ Respond(p, "fetch", 200)
    /\ UNCHANGED <<convs, nextMsgId, presenceVars, nfail, deleted, acked>>

\* DELETE /:messageId from the request's arrival to the resolution of
\* Message.findById and the 404 / 403 checks
DeleteStart(p, userId, messageId) ==
    /\ Idle(p)
    /\ IF messageId \notin MsgIds
       THEN Respond(p, "delete", 404)
       ELSE IF NotSender(msgs[messageId], userId)
            THEN Respond(p, "delete", 403)
            ELSE Park(p, [NoReq EXCEPT !.op = "delete", !.userId = userId,
                                       !.messageId = messageId,
                                       !.conversationId =
                                            msgs[messageId].conversationId],
                      "delete_remove")
    /\ UNCHANGED <<storeVars, presenceVars, nfail, deleted, acked>>

\* await Message.findByIdAndDelete(messageId)
DeleteRemove(p) ==
    /\ pc[p] = "delete_remove"
    /\ msgs' = RemoveMessage(msgs, req[p].messageId)
    /\ Park(p, req[p], "delete_pull")
    /\ UNCHANGED <<convs, nextMsgId, presenceVars, nfail, deleted, acked>>

\* await Conversation.findByIdAndUpdate(..., {$pull: ...}); res 200
DeletePull(p) ==
    /\ pc[p] = "delete_pull"
    /\ convs' = [convs EXCEPT ![req[p].conversationId] =
                    Pull(@, req[p].messageId)]
    /\ deleted' = deleted \cup {req[p].messageId}
    /\ Respond(p, "delete", 200)
    /\ UNCHANGED <<msgs, nextMsgId, presenceVars, nfail, acked>>

\* PUT /read/:conversationId: one Message.updateMany, then res 200
MarkRead(p, userId, c) ==
    /\ Idle(p)
    /\ msgs' = UpdateManyRead(msgs, c, TRUE, userId, userId)
    /\ Respond(p, "markRead", 200)
    /\ UNCHANGED <<convs, nextMsgId, presenceVars, nfail, deleted, acked>>

\* an awaited store operation rejects: the handler's catch answers 500
StoreFail(p) ==
    /\ pc[p] # "idle"
    /\ nfail < MaxFails
    /\ nfail' = nfail + 1
    /\ Respond(p, req[p].op, 500)
    /\ UNCHANGED <<storeVars, presenceVars, deleted, acked>>

\* ----------------------------------------------------------------- presence
\* socket.handshake.query.userId: a user id, the string "undefined", or absent
HandshakeIds == Users \cup {"undefined", ""}

\* the sockets io.emit reaches: every connected socket
Connected(state) == {s \in Sockets : state[s] = "open"}

\* Object.keys(userSocketMap)
Keys(map) == {u \in Users : map[u] # NoSocket}

\* io.on("connection"): register, then broadcast the key set
ConnectFirstWins(s) ==
    /\ sockState[s] = "new"
    /\ sockState' = [sockState EXCEPT ![s] = "open"]
    /\ \E userId \in HandshakeIds :
        /\ sockUser' = [sockUser EXCEPT ![s] = userId]
        /\ IF userId # "" /\ userId # "undefined"
           THEN /\ userSocketMap' =
                    IF userSocketMap[userId] = NoSocket
                    THEN [userSocketMap EXCEPT ![userId] = s]
                    ELSE userSocketMap
                /\ lastConnect' = [lastConnect EXCEPT ![userId] = s]
           ELSE UNCHANGED <<userSocketMap, lastConnect>>
    /\ out' = [NoOut EXCEPT !.kind = "broadcast", !.op = "connect",
                            !.online = Keys(userSocketMap'),
                            !.audience = Connected(sockState')]
    /\ UNCHANGED <<storeVars, pc, req, nfail, deleted, acked>>

ConnectBroadcastFirst(s) ==
    /\ sockState[s] = "new"
    /\ sockState' = [sockState EXCEPT ![s] = "open"]
    /\ \E userId \in HandshakeIds :
        /\ sockUser' = [sockUser EXCEPT ![s] = userId]
        /\ IF userId # "" /\ userId # "undefined"
           THEN /\ userSocketMap' = [userSocketMap EXCEPT ![userId] = s]
                /\ lastConnect' = [lastConnect EXCEPT ![userId] = s]
           ELSE UNCHANGED <<userSocketMap, lastConnect>>
    /\ out' = [NoOut EXCEPT !.kind = "broadcast", !.op = "connect",
                            !.online = Keys(userSocketMap),
                            !.audience = Connected(sockState')]
    /\ UNCHANGED <<storeVars, pc, req, nfail, deleted, acked>>

Connect(s) ==
    /\ sockState[s] = "new"
    /\ sockState' = [sockState EXCEPT ![s] = "open"]
    /\ \E userId \in HandshakeIds :
        /\ sockUser' = [sockUser EXCEPT ![s] = userId]
        /\ IF userId # "" /\ userId # "undefined"
           THEN /\ userSocketMap' = [userSocketMap EXCEPT ![userId] = s]
                /\ lastConnect' = [lastConnect EXCEPT ![userId] = s]
           ELSE UNCHANGED <<userSocketMap, lastConnect>>
    /\ out' = [NoOut EXCEPT !.kind = "broadcast", !.op = "connect",
                            !.online = Keys(userSocketMap'),
                            !.audience = Connected(sockState')]
    /\ UNCHANGED <<storeVars, pc, req, nfail, deleted, acked>>

\* socket.on("disconnect"): delete the first entry holding this socket id
DisconnectKeepsEntry(s) ==
    /\ sockState[s] = "open"
    /\ sockState' = [sockState EXCEPT ![s] = "closed"]
    /\ userSocketMap' = userSocketMap
    /\ out' = [NoOut EXCEPT !.kind = "broadcast", !.op = "disconnect",
                            !.online = Keys(userSocketMap'),
                            !.audience = Connected(sockState')]
    /\ UNCHANGED <<storeVars, sockUser, lastConnect, pc, req, nfail, deleted,
                   acked>>

DisconnectFirstEntry(s) ==
    /\ sockState[s] = "open"
    /\ sockState' = [sockState EXCEPT ![s] = "closed"]
    /\ userSocketMap' =
        IF \E u \in Users : userSocketMap[u] # NoSocket
        THEN LET u == CHOOSE x \in Users : userSocketMap[x] # NoSocket
             IN [userSocketMap EXCEPT ![u] = NoSocket]
        ELSE userSocketMap
    /\ out' = [NoOut EXCEPT !.kind = "broadcast", !.op = "disconnect",
                            !.online = Keys(userSocketMap'),
                            !.audience = Connected(sockState')]
    /\ UNCHANGED <<storeVars, sockUser, lastConnect, pc, req, nfail, deleted,
                   acked>>

Disconnect(s) ==
    /\ sockState[s] = "open"
    /\ sockState' = [sockState EXCEPT ![s] = "closed"]
    /\ userSocketMap' =
        IF \E u \in Users : userSocketMap[u] = s
        THEN LET u == CHOOSE x \in Users : userSocketMap[x] = s
             IN [userSocketMap EXCEPT ![u] = NoSocket]
        ELSE userSocketMap
    /\ out' = [NoOut EXCEPT !.kind = "broadcast", !.op = "disconnect",
                            !.online = Keys(userSocketMap'),
                            !.audience = Connected(sockState')]
    /\ UNCHANGED <<storeVars, sockUser, lastConnect, pc, req, nfail, deleted,
                   acked>>

\* socket.to(room).emit(...): the sockets in the room named by a socket id,
\* which is that socket while it is connected, except the emitting socket
SocketTo(s, room) == {t \in Connected(sockState) : t = room} \ {s}

\* socket.on("typing"): data = {senderId, receiverId, isTyping}; the event
\* is relayed to the receiver's registered socket, if any.  out.audience is
\* the set of sockets the relayed event reaches
Typing(s, data) ==
    /\ sockState[s] = "open"
    /\ LET receiverSocketId == userSocketMap[data.receiverId] IN
        out' = [NoOut EXCEPT !.kind = "event", !.op = "typing",
                             !.audience = IF receiverSocketId # NoSocket
                                          THEN SocketTo(s, receiverSocketId)
                                          ELSE {}]
    /\ UNCHANGED <<storeVars, presenceVars, pc, req, nfail, deleted, acked>>

\* socket.on("messageRead"): data = {senderId, messageId, readBy}; the event
\* is relayed to the registered socket of the message's sender, if any
MessageReadPersists(s, data) ==
    /\ sockState[s] = "open"
    /\ LET senderSocketId == userSocketMap[data.senderId] IN
        out' = [NoOut EXCEPT !.kind = "event", !.op = "messageRead",
                             !.audience = IF senderSocketId # NoSocket
                                          THEN SocketTo(s, senderSocketId)
                                          ELSE {}]
    /\ msgs' = [id \in DOMAIN msgs |->
                    IF id = data.messageId
                    THEN [msgs[id] EXCEPT !.isRead = TRUE] ELSE msgs[id]]
    /\ UNCHANGED <<convs, nextMsgId, presenceVars, pc, req, nfail, deleted,
                   acked>>

MessageRead(s, data) ==
    /\ sockState[s] = "open"
    /\ LET senderSocketId == userSocketMap[data.senderId] IN
        out' = [NoOut EXCEPT !.kind = "event", !.op = "messageRead",
                             !.audience = IF senderSocketId # NoSocket
                                          THEN SocketTo(s, senderSocketId)
                                          ELSE {}]
    /\ UNCHANGED <<storeVars, presenceVars, pc, req, nfail, deleted, acked>>

\* ------------------------------------------------------------ specification
\* request parameters
MessageIdArgs == 1..MaxMsgs
ConvIdArgs == 1..MaxConvs

\* a send is accepted only while the documents it may create fit the bounds
Room(maxMsgs, s, r) ==
    /\ nextMsgId + Cardinality(UnsavedSends) <= maxMsgs
    /\ FindMatches(s, r) = {} =>
            Len(convs) + Cardinality(UncreatedSends) < MaxConvs

\* the steps of POST /send/:id
SendSteps(maxMsgs) ==
    \/ \E p \in Procs, s \in Users, r \in Users, body \in Bodies :
            Room(maxMsgs, s, r) /\ SendStart(p, s, r, body)
    \/ \E p \in Procs : SendCreate(p)
    \/ \E p \in Procs : SendSave(p)
    \/ \E p \in Procs : SendUpdate(p)
    \/ \E p \in Procs : SendRelay(p)

SendNext == SendSteps(MaxMsgs)

\* the steps of GET /:id
FetchNext ==
    \/ \E p \in Procs, viewer \in Users, other \in Users :
            FetchStart(p, viewer, other)
    \/ \E p \in Procs : FetchMark(p)

\* the steps of DELETE /:messageId
DeleteNext ==
    \/ \E p \in Procs, userId \in Users, messageId \in MessageIdArgs :
            DeleteStart(p, userId, messageId)
    \/ \E p \in Procs : DeleteRemove(p)
    \/ \E p \in Procs : DeletePull(p)

\* PUT /read/:conversationId
MarkReadNext ==
    \E p \in Procs, userId \in Users, c \in ConvIdArgs : MarkRead(p, userId, c)

FailNext == \E p \in Procs : StoreFail(p)

\* connections and disconnections of the given sockets
PresenceSteps(sockets) ==
    \/ \E s \in sockets : Connect(s)
    \/ \E s \in sockets : Disconnect(s)

PresenceNext == PresenceSteps(Sockets)

\* event payloads a client may emit
TypingData ==
    [senderId : Users, receiverId : Users, isTyping : BOOLEAN]

MessageReadData ==
    [senderId : Users, messageId : MessageIdArgs, readBy : Users]

\* typing and messageRead events arriving on the given sockets
EventSteps(sockets) ==
    \/ \E s \in sockets, data \in TypingData : Typing(s, data)
    \/ \E s \in sockets, data \in MessageReadData : MessageRead(s, data)

EventNext == EventSteps(Sockets)

\* the whole server
Next ==
    \/ SendNext
    \/ FetchNext
    \/ DeleteNext
    \/ MarkReadNext
    \/ FailNext
    \/ PresenceNext
    \/ EventNext

Spec == Init /\ [][Next]_vars

\* The whole server is beyond exhaustive search at these bounds; the
\* properties are checked on the parts of it they are about.  Every behaviour
\* of a part is a behaviour of Spec.

\* the message routes over a store that answers every operation
StoreNext ==
    \/ SendNext
    \/ FetchNext
    \/ DeleteNext
    \/ MarkReadNext

StoreSpec == Init /\ [][StoreNext]_vars

\* the send route alone, over a store that answers every operation
SendOnlyNext == SendSteps(MaxSendMsgs)

SendSpec == Init /\ [][SendOnlyNext]_vars

\* sends, store failures and the socket.io connections the relay pushes to
RelayNext ==
    \/ SendNext
    \/ FailNext
    \/ PresenceSteps(RelaySockets)

RelaySpec == Init /\ [][RelayNext]_vars

\* the socket.io side alone: connections, disconnections and client events
SocketNext ==
    \/ PresenceNext
    \/ EventNext

SocketSpec == Init /\ [][SocketNext]_vars

\* client events next to the requests that set isRead, with one socket
ReceiptNext ==
    \/ SendSteps(MaxReceiptMsgs)
    \/ FetchNext
    \/ MarkReadNext
    \/ PresenceSteps(RelaySockets)
    \/ EventSteps(RelaySockets)

ReceiptSpec == Init /\ [][ReceiptNext]_vars

\* sends and deletes over a store whose operations may reject.  A
\* request that arrived runs to its response: the store answers every
\* operation, with a result or an error.  New requests need not arrive.
FaultNext ==
    \/ SendNext
    \/ DeleteNext
    \/ FailNext

Continue(p) ==
    \/ SendCreate(p)
    \/ SendSave(p)
    \/ SendUpdate(p)
    \/ SendRelay(p)
    \/ DeleteRemove(p)
    \/ DeletePull(p)
    \/ StoreFail(p)

FaultSpec ==
    /\ Init
    /\ [][FaultNext]_vars
    /\ \A p \in Procs : WF_vars(Continue(p))


\* ------------------------------------------------------------- properties
Last(seq) == seq[Len(seq)]

\* C1: at most one conversation exists for a given unordered pair of
\* participants, in every reachable state, however sends interleave
C1_OneConversationPerPair ==
    \A c1 \in ConvIds, c2 \in ConvIds :
        Participants(c1) = Participants(c2) => c1 = c2

\* C2: when a send for a pair that had no conversation answers 201, exactly
\* one conversation of that pair exists, its message list holds exactly the
\* new message, and its last-message pointer is that message
C2_FirstSendCreatesOne ==
    [][\A p \in Procs :
        (SendRelay(p) /\ req[p].fresh) =>
            LET own == ConvsOfPair(req[p].userId, req[p].otherId) IN
            /\ Cardinality(own) = 1
            /\ \A c \in own :
                /\ convs[c].messages = <<req[p].messageId>>
                /\ convs[c].lastMessage = req[p].messageId]_vars

\* C3: a successful send between a pair that already had a conversation
\* lengthens the message list of a conversation of that pair by exactly one:
\* what was there stays, the new id (not in the list before) comes last and
\* lastMessage points at it.  So N such sends make the pair's list N longer,
\* each id once, the pointer on the id appended last
C3_SendAppendsToPair ==
    [][\A p \in Procs :
        (SendUpdate(p) /\ ~req[p].fresh) =>
            \E c \in ConvsOfPair(req[p].userId, req[p].otherId) :
                LET m == req[p].messageId
                    old == convs[c].messages
                    new == convs'[c].messages
                IN  /\ Len(new) = Len(old) + 1
                    /\ SubSeq(new, 1, Len(old)) = old
                    /\ Last(new) = m
                    /\ m \notin Range(old)
                    /\ convs'[c].lastMessage = m]_vars

\* C4: the participants of the conversation a stored message belongs to are
\* exactly the message's sender and receiver
C4_MessageInOwnConversation ==
    \A m \in MsgIds :
        Participants(msgs[m].conversationId) =
            {msgs[m].senderId, msgs[m].receiverId}

\* C5: a fetch that runs after a delete of m answered 200 does not return m:
\* the sequence a fetch loads (and later returns unchanged) holds no id whose
\* delete has already succeeded
C5_DeletedNeverFetched ==
    [][/\ \A p \in Procs, viewer \in Users, other \in Users :
            FetchStart(p, viewer, other) =>
                Range(req'[p].list) \cap deleted = {}
       /\ \A p \in Procs :
            (pc[p] = "fetch_mark" /\ pc'[p] = "fetch_mark") =>
                req'[p].list = req[p].list]_vars

C5_Witness ==
    \E p \in Procs, m \in deleted :
        /\ pc[p] = "fetch_mark"
        /\ m \in Range(convs[req[p].conversationId].messages)
        /\ m \notin Range(req[p].list)

\* C6: whenever some conversation lists an id without a message record, a
\* state follows in which every listed id has a message record
Dangling ==
    \E c \in ConvIds : \E i \in DOMAIN convs[c].messages :
        convs[c].messages[i] \notin MsgIds

C6_DanglingResolved == Dangling ~> ~Dangling

\* C7: a delete of an id without a message record answers 404, a delete by
\* someone other than the sender answers 403, and either ends the request
\* with the messages and the conversations as they were
C7_DeleteRejections ==
    [][\A p \in Procs, userId \in Users, messageId \in MessageIdArgs :
        DeleteStart(p, userId, messageId) =>
            /\ messageId \notin MsgIds =>
                /\ out'.kind = "response" /\ out'.status = 404
                /\ pc'[p] = "idle" /\ msgs' = msgs /\ convs' = convs
            /\ (messageId \in MsgIds /\ msgs[messageId].senderId # userId) =>
                /\ out'.kind = "response" /\ out'.status = 403
                /\ pc'[p] = "idle" /\ msgs' = msgs /\ convs' = convs]_vars

C7_Witness ==
    /\ out.op = "delete"
    /\ out.status = 403
    /\ MsgIds # {}
    /\ \A p \in Procs : pc[p] # "delete_remove" /\ pc[p] # "delete_pull"

\* C8: a send whose body is absent, empty or all whitespace answers 400,
\* ends the request, pushes nothing and leaves the store as it was
BlankBody(body) ==
    (~body.defined) \/ (\A i \in DOMAIN body.text : IsSpace(body.text[i]))

C8_BlankBodyRejected ==
    [][\A p \in Procs, s \in Users, r \in Users, body \in Bodies :
        (SendStart(p, s, r, body) /\ BlankBody(body)) =>
            /\ out'.kind = "response" /\ out'.status = 400
            /\ out'.pushTo = NoSocket /\ out'.pushMsg = NoId
            /\ pc'[p] = "idle"
            /\ convs' = convs /\ msgs' = msgs /\ nextMsgId' = nextMsgId]_vars

C8_Witness ==
    /\ out.op = "send"
    /\ out.status = 400
    /\ Keys(userSocketMap) # {}

\* C9: markRead(c, r) changes the store only by setting isRead on the
\* messages of c addressed to r, and a second markRead(c, r) right after it
\* changes nothing
C9_MarkReadIdempotent ==
    [][\A p \in Procs, userId \in Users, c \in ConvIdArgs :
        MarkRead(p, userId, c) =>
            /\ DOMAIN msgs' = DOMAIN msgs
            /\ \A id \in DOMAIN msgs :
                msgs'[id] =
                    IF msgs[id].conversationId = c /\ msgs[id].receiverId = userId
                    THEN [msgs[id] EXCEPT !.isRead = TRUE]
                    ELSE msgs[id]
            /\ convs' = convs
            /\ UpdateManyRead(msgs', c, TRUE, userId, userId) = msgs']_vars

C9_Witness ==
    /\ out.op = "markRead"
    /\ out.status = 200
    /\ \E m \in MsgIds : msgs[m].isRead
    /\ \E m \in MsgIds : ~msgs[m].isRead

\* C10: when a fetch answers and the pair had a conversation, every stored
\* message from other to viewer that existed when the fetch began is read;
\* when the pair had no conversation the fetch returns the empty sequence
\* and leaves the store as it was
C10_FetchMarksOrEmpty ==
    [][\A p \in Procs :
        FetchMark(p) =>
            /\ ~req[p].fresh =>
                \A m \in DOMAIN msgs' :
                    (/\ m < req[p].seen
                     /\ msgs'[m].senderId = req[p].otherId
                     /\ msgs'[m].receiverId = req[p].userId) => msgs'[m].isRead
            /\ req[p].fresh => (req[p].list = <<>> /\ msgs' = msgs)]_vars

\* a handshake identity the connection handler registers
Usable(userId) == userId # "" /\ userId # "undefined"

\* C11: the presence snapshot is the set of users whose registered
\* connection, the one that connected last under their identity, has not
\* closed
C11_SnapshotIsLive ==
    Keys(userSocketMap) =
        {u \in Users : /\ lastConnect[u] # NoSocket
                       /\ sockState[lastConnect[u]] = "open"}

C11_Witness ==
    \E a \in Sockets, b \in Sockets :
        /\ lastConnect["A"] = a /\ sockState[a] = "closed"
        /\ lastConnect["B"] = b /\ sockState[b] = "open"
        /\ Keys(userSocketMap) = {"B"}
        /\ out.op = "disconnect"
        /\ \A c \in Sockets \ {a, b} : sockState[c] = "new"

\* C12: a connect under identity U registers the connecting socket for U,
\* replacing any earlier one, and touches no other entry; a disconnect
\* removes exactly the entry that holds the closing socket; an entry
\* disappears only in the step that closes the socket it holds
C12_LastConnectWins ==
    [][/\ \A s \in Sockets :
            Connect(s) =>
                /\ Usable(sockUser'[s]) => userSocketMap'[sockUser'[s]] = s
                /\ \A u \in Users \ {sockUser'[s]} :
                        userSocketMap'[u] = userSocketMap[u]
       /\ \A s \in Sockets :
            Disconnect(s) =>
                \A u \in Users :
                    userSocketMap'[u] =
                        IF userSocketMap[u] = s THEN NoSocket
                        ELSE userSocketMap[u]
       /\ \A u \in Users :
            (userSocketMap[u] # NoSocket /\ userSocketMap'[u] = NoSocket) =>
                /\ sockState[userSocketMap[u]] = "open"
                /\ sockState'[userSocketMap[u]] = "closed"]_vars

C12_Witness ==
    \E u \in Users, c1 \in Sockets, c2 \in Sockets :
        /\ c1 # c2
        /\ sockUser[c1] = u /\ sockState[c1] = "closed"
        /\ sockUser[c2] = u /\ sockState[c2] = "open"
        /\ userSocketMap[u] = c2
        /\ out.op = "disconnect"
        /\ \A c3 \in Sockets \ {c1, c2} : sockState[c3] = "new"

\* C13: the step that handles a connect or a disconnect broadcasts, to
\* every connected socket, the registry's user set as it is after the
\* step's registry update: with the connecting user when the identity is
\* usable, with the registry as it was when it is not, without the user
\* whose registered socket closed
C13_BroadcastAfterUpdate ==
    [][/\ \A s \in Sockets :
            Connect(s) =>
                /\ out'.kind = "broadcast"
                /\ out'.online = Keys(userSocketMap')
                /\ out'.audience = Connected(sockState')
                /\ s \in out'.audience
                /\ Usable(sockUser'[s]) => sockUser'[s] \in out'.online
                /\ ~Usable(sockUser'[s]) => userSocketMap' = userSocketMap
       /\ \A s \in Sockets :
            Disconnect(s) =>
                /\ out'.kind = "broadcast"
                /\ out'.online = Keys(userSocketMap')
                /\ out'.audience = Connected(sockState')
                /\ \A u \in Users : userSocketMap[u] = s => u \notin out'.online
      ]_vars

C13_Witness ==
    \E s \in Sockets :
        /\ sockState[s] = "open"
        /\ ~Usable(sockUser[s])
        /\ out.kind = "broadcast"
        /\ out.online # {}
        /\ s \in out.audience

\* C14: a typing or messageRead event changes no message and no
\* conversation; with its target offline it reaches no socket and answers
\* nothing; and a message's isRead becomes true only in a step of a fetch
\* or of markRead
C14_EventsLeaveStore ==
    [][/\ \A s \in Sockets, data \in TypingData :
            Typing(s, data) =>
                /\ msgs' = msgs /\ convs' = convs
                /\ userSocketMap[data.receiverId] = NoSocket =>
                        /\ out'.audience = {} /\ out'.pushTo = NoSocket
                        /\ out'.status = 0
       /\ \A s \in Sockets, data \in MessageReadData :
            MessageRead(s, data) =>
                /\ msgs' = msgs /\ convs' = convs
                /\ userSocketMap[data.senderId] = NoSocket =>
                        /\ out'.audience = {} /\ out'.pushTo = NoSocket
                        /\ out'.status = 0
       /\ (\E m \in DOMAIN msgs \cap DOMAIN msgs' :
                ~msgs[m].isRead /\ msgs'[m].isRead) =>
            \/ \E p \in Procs : FetchMark(p)
            \/ \E p \in Procs, userId \in Users, c \in ConvIdArgs :
                    MarkRead(p, userId, c)]_vars

C14_Witness ==
    /\ out.op = "messageRead"
    /\ out.audience = {}
    /\ Keys(userSocketMap) = {}
    /\ \E m \in MsgIds : m \in acked /\ ~msgs[m].isRead

\* C15: a typing event reaches exactly the socket registered for its
\* receiverId, a messageRead event exactly the socket registered for its
\* senderId, whichever socket emitted the event; it reaches no socket when
\* none is registered
C15_EventReachesTarget ==
    [][/\ \A s \in Sockets, data \in TypingData :
            Typing(s, data) =>
                out'.audience =
                    IF userSocketMap[data.receiverId] # NoSocket
                    THEN {userSocketMap[data.receiverId]} ELSE {}
       /\ \A s \in Sockets, data \in MessageReadData :
            MessageRead(s, data) =>
                out'.audience =
                    IF userSocketMap[data.senderId] # NoSocket
                    THEN {userSocketMap[data.senderId]} ELSE {}]_vars

\* C16: a newMessage push is sent only by the last step of a send, for the
\* message of that send, when the message record is stored and its id is in
\* the list of the conversation the send updated; it goes to the socket
\* registered for the receiver at that step and to no other; a step that
\* answers a store failure pushes nothing
C16_PushAfterPersistence ==
    [][/\ out'.pushMsg # NoId =>
            \E p \in Procs :
                /\ SendRelay(p)
                /\ out'.pushMsg = req[p].messageId
                /\ req[p].messageId \in MsgIds
                /\ msgs[req[p].messageId].receiverId = req[p].otherId
                /\ req[p].messageId \in
                        Range(convs[req[p].conversationId].messages)
                /\ out'.pushTo # NoSocket
                /\ out'.pushTo = userSocketMap[req[p].otherId]
                /\ out'.audience = {}
       /\ \A p \in Procs :
            StoreFail(p) => (out'.pushMsg = NoId /\ out'.pushTo = NoSocket)
      ]_vars

C16_Witness ==
    /\ out.status = 201
    /\ out.pushMsg \in MsgIds
    /\ out.pushTo \in Connected(sockState)
    /\ nfail > 0

\* C17: a fetch by viewer of the thread with other returns every stored
\* message from other to viewer whose send has answered 201
C17_SentIsFetched ==
    [][\A p \in Procs, viewer \in Users, other \in Users :
        FetchStart(p, viewer, other) =>
            LET result == IF pc'[p] = "fetch_mark" THEN req'[p].list ELSE <<>>
            IN  \A m \in acked \cap MsgIds :
                    (msgs[m].senderId = other /\ msgs[m].receiverId = viewer)
                        => m \in Range(result)]_vars

\* C18: a send that has saved its message and updated its conversation
\* ends with the answer 201
C18_PersistedSendSucceeds ==
    [][\A p \in Procs :
        (pc[p] = "send_relay" /\ pc'[p] = "idle") =>
            (out'.op = "send" /\ out'.status = 201)]_vars

\* C19: the last-message pointer of a conversation with messages is the
\* last element of its list, and never an id whose delete has succeeded
C19_PointerIsMostRecent ==
    \A c \in ConvIds :
        /\ convs[c].messages # <<>> =>
                convs[c].lastMessage = Last(convs[c].messages)
        /\ convs[c].lastMessage \notin deleted

\* C20: the ids of a conversation's list appear in the order in which
\* their message records were created (ids are handed out in that order)
C20_ListInCreationOrder ==
    \A c \in ConvIds :
        \A i \in DOMAIN convs[c].messages, j \in DOMAIN convs[c].messages :
            i < j => convs[c].messages[i] < convs[c].messages[j]

\* C21: the read-marking update of a fetch sets isRead only on messages
\* that are in the sequence the fetch returns
C21_MarksOnlyReturned ==
    [][\A p \in Procs :
        FetchMark(p) =>
            \A m \in DOMAIN msgs \cap DOMAIN msgs' :
                (~msgs[m].isRead /\ msgs'[m].isRead) =>
                    m \in Range(req[p].list)]_vars

\* C22: every socket id in the registry is the id of a socket that is
\* open, and no socket id is registered for two users
C22_RegisteredAreOpen ==
    /\ \A u \in Keys(userSocketMap) : sockState[userSocketMap[u]] = "open"
    /\ \A u \in Keys(userSocketMap), v \in Keys(userSocketMap) :
            userSocketMap[u] = userSocketMap[v] => u = v

C22_Witness ==
    /\ Keys(userSocketMap) = Users
    /\ \E s \in Sockets : sockState[s] = "closed" /\ Usable(sockUser[s])

====
